---- MODULE Spec2Model ----
(***************************************************************************)
(* Model of main.py of imageLocationReport: a directory of photographs is  *)
(* scanned, the GPS block of every image is read, converted to decimal     *)
(* degrees, rendered as two QR codes, and the geolocated images are        *)
(* assembled into one PDF.                                                 *)
(*                                                                         *)
(* Representation.                                                         *)
(*  - An Optional value is a sequence of length <= 1: None is <<>> and a   *)
(*    present value v is <<v>>.                                            *)
(*  - A Python dict with string keys is a function whose DOMAIN is the set *)
(*    of keys; the dict image_metadata, whose iteration order matters, is  *)
(*    a sequence of records keyed by their name field.                     *)
(*  - A decimal coordinate is an integer count of arc seconds (1/3600 of a *)
(*    degree): degrees + minutes/60 + seconds/3600 is exact in that unit   *)
(*    for whole degrees, minutes and seconds.  45.5 degrees is 163800.     *)
(*  - An uncaught exception ends the run in pc = "crashed" with the        *)
(*    exception's class in error.                                          *)
(***************************************************************************)
EXTENDS Integers, Sequences, FiniteSets, TLC

VARIABLES
    pc,              \* position of main: start, mkdir, glob, loop, pdf, done, crashed
    dirExists,       \* input: images/test exists
    outputDir,       \* input: state of output/test before the run
    listing,         \* input: what image_dir.glob("*") yields, in its order
    images,          \* main's list images
    idx,             \* number of completed iterations of the per-image loop
    image_metadata,  \* main's dict image_metadata, in dict order
    written,         \* QR files written to the output directory
    filtered_data,   \* the list handed to generate_pdf
    pdfCalls,        \* number of invocations of generate_pdf
    pages,           \* sections emitted on the canvas (showPage), by image path
    saves,           \* number of calls of canvas.save
    report,          \* the PDF file on disk: None, or the pages saved
    log,             \* messages logged at warning/error/info level by main
    error,           \* None, or the class of the exception that ended the run
    npc,             \* position of the stand-alone call of extract_gps_coordinates
    gps_in,          \* its argument
    coords,          \* its result
    conv_calls       \* the calls of convert_to_decimal it made

vars == <<pc, dirExists, outputDir, listing, images, idx, image_metadata, written,
          filtered_data, pdfCalls, pages, saves, report, log, error,
          npc, gps_in, coords, conv_calls>>

mainVars == <<pc, dirExists, outputDir, listing, images, idx, image_metadata, written,
              filtered_data, pdfCalls, pages, saves, report, log, error>>

normVars == <<npc, gps_in, coords, conv_calls>>

\* ---------------------------------------------------------------- bounds

MaxFiles == 3

MaxRecords == 3

MaxDeg == 181

MaxMin == 59

MaxSec == 59

\* ---------------------------------------------------------------- values

None == <<>>

Some(x) == <<x>>

EmptyDict == [k \in {} |-> ""]

GpsTags == {"GPSLatitude", "GPSLatitudeRef", "GPSLongitude", "GPSLongitudeRef"}

\* The dict get_gps_data builds, restricted to the keys in tags.
GpsBlock(tags, la, lar, lo, lor) ==
    [k \in tags |-> CASE k = "GPSLatitude" -> la
                      [] k = "GPSLatitudeRef" -> lar
                      [] k = "GPSLongitude" -> lo
                      [] OTHER -> lor]

\* dict.get(key): None when the key is missing.
Get(d, k) == IF k \in DOMAIN d THEN Some(d[k]) ELSE None

\* Python truth value of the result of dict.get for a tuple or a string.
Truthy(opt) == opt # None /\ Len(opt[1]) > 0

\* ------------------------------------------------- convert_to_decimal

convert_to_decimal_OnlySouth(degrees, minutes, seconds, direction) ==
    LET decimal == degrees * 3600 + minutes * 60 + seconds
    IN  IF direction = "S" THEN -decimal ELSE decimal

convert_to_decimal(degrees, minutes, seconds, direction) ==
    LET decimal == degrees * 3600 + minutes * 60 + seconds
    IN  IF direction \in {"S", "W"} THEN -decimal ELSE decimal

\* --------------------------------------------- extract_gps_coordinates

\* The condition of line 69.
AllFieldsTruthy(gps_info) ==
    /\ Truthy(Get(gps_info, "GPSLatitude"))
    /\ Truthy(Get(gps_info, "GPSLatitudeRef"))
    /\ Truthy(Get(gps_info, "GPSLongitude"))
    /\ Truthy(Get(gps_info, "GPSLongitudeRef"))

\* The argument lists of the calls of convert_to_decimal, in call order.
ConversionArgs(gps_info) ==
    IF AllFieldsTruthy(gps_info)
    THEN << <<gps_info["GPSLatitude"], gps_info["GPSLatitudeRef"]>>,
            <<gps_info["GPSLongitude"], gps_info["GPSLongitudeRef"]>> >>
    ELSE << >>

extract_gps_coordinates_NoRefCheck(gps_info) ==
    LET la == Get(gps_info, "GPSLatitude")
        lo == Get(gps_info, "GPSLongitude")
        lar == IF "GPSLatitudeRef" \in DOMAIN gps_info
               THEN gps_info["GPSLatitudeRef"] ELSE ""
        lor == IF "GPSLongitudeRef" \in DOMAIN gps_info
               THEN gps_info["GPSLongitudeRef"] ELSE ""
    IN  IF Truthy(la) /\ Truthy(lo)
        THEN <<Some(convert_to_decimal(la[1][1], la[1][2], la[1][3], lar)),
               Some(convert_to_decimal(lo[1][1], lo[1][2], lo[1][3], lor))>>
        ELSE <<None, None>>

extract_gps_coordinates(gps_info) ==
    LET calls == ConversionArgs(gps_info)
    IN  IF Len(calls) = 2
        THEN <<Some(convert_to_decimal(calls[1][1][1], calls[1][1][2],
                                       calls[1][1][3], calls[1][2])),
               Some(convert_to_decimal(calls[2][1][1], calls[2][1][2],
                                       calls[2][1][3], calls[2][2]))>>
        ELSE <<None, None>>

\* ------------------------------------------------------- the input world

\* The GPS block of the photograph at 40 26'46"N 79 58'56"W, and the same block
\* without its longitude reference.
FullBlock ==
    GpsBlock(GpsTags, <<40, 26, 46>>, "N", <<79, 58, 56>>, "W")

PartialBlock ==
    GpsBlock(GpsTags \ {"GPSLongitudeRef"}, <<40, 26, 46>>, "N", <<79, 58, 56>>, "W")

\* What a file is to get_gps_data: gone since the glob, not an image the
\* decoder accepts, an image without EXIF, one without the GPSInfo tag, or one
\* with a GPS block (complete, incomplete or empty).
Contents ==
    {[kind |-> k, tags |-> EmptyDict] :
        k \in {"missing", "undecodable", "noexif", "nogps"}}
    \cup {[kind |-> "gps", tags |-> t] : t \in {FullBlock, PartialBlock, EmptyDict}}

FileNames ==
    {<<"a", ".jpg">>, <<"a", ".png">>, <<"b", ".HEIC">>, <<"notes", ".txt">>}

valid_extensions == {".jpg", ".HEIC", ".png", ".jpeg"}

Files ==
    {[stem |-> n[1], ext |-> n[2], content |-> c] :
        n \in {m \in FileNames : m[2] \in valid_extensions}, c \in Contents}
    \cup {[stem |-> n[1], ext |-> n[2],
           content |-> [kind |-> "noexif", tags |-> EmptyDict]] :
        n \in {m \in FileNames : m[2] \notin valid_extensions}}

FileName(f) == f.stem \o f.ext

\* A directory holds no two files of one name.
Listings ==
    UNION {{s \in [1..n -> Files] :
              \A i, j \in 1..n : i # j => FileName(s[i]) # FileName(s[j])} :
           n \in 0..MaxFiles}

output_path == "output/test"

\* ----------------------------------------------------------- get_gps_data

get_gps_data(file) ==
    CASE file.content.kind = "missing" ->
            [error |-> Some("FileNotFoundError"), value |-> None]
      [] file.content.kind = "undecodable" ->
            [error |-> Some("UnidentifiedImageError"), value |-> None]
      [] file.content.kind = "noexif" -> [error |-> None, value |-> None]
      [] file.content.kind = "nogps" -> [error |-> None, value |-> None]
      [] OTHER -> [error |-> None, value |-> Some(file.content.tags)]

\* ------------------------------------------------------ generate_qr_codes

QrOutcomes == {"ok", "google_fail", "apple_fail"}

\* generate_qr: the file qr.save writes.
QrFile(provider, lat, lon, filename, output_dir) ==
    [path |-> output_dir \o "/" \o filename \o "_" \o provider \o "_maps_qr.png",
     url |-> [provider |-> provider, lat |-> lat, lon |-> lon]]

generate_qr_codes_KeepGoogle(lat, lon, filename, output_dir, outcome) ==
    LET g == QrFile("google", lat, lon, filename, output_dir)
        a == QrFile("apple", lat, lon, filename, output_dir)
    IN  CASE outcome = "google_fail" ->
                [error |-> Some("OSError"), google |-> None, apple |-> None,
                 files |-> {}]
          [] outcome = "apple_fail" ->
                [error |-> None, google |-> Some(g.path), apple |-> None,
                 files |-> {g}]
          [] OTHER ->
                [error |-> None, google |-> Some(g.path), apple |-> Some(a.path),
                 files |-> {g, a}]

\* outcome is what the two qr.save calls do: the first may fail, or the second
\* after the first has written its file.
generate_qr_codes(lat, lon, filename, output_dir, outcome) ==
    LET g == QrFile("google", lat, lon, filename, output_dir)
        a == QrFile("apple", lat, lon, filename, output_dir)
    IN  CASE outcome = "google_fail" ->
                [error |-> Some("OSError"), google |-> None, apple |-> None,
                 files |-> {}]
          [] outcome = "apple_fail" ->
                [error |-> Some("OSError"), google |-> None, apple |-> None,
                 files |-> {g}]
          [] OTHER ->
                [error |-> None, google |-> Some(g.path), apple |-> Some(a.path),
                 files |-> {g, a}]

\* ------------------------------------------------------------------ main

\* gps_info defaults to an empty dict (default_factory=dict).
ImageMetadata(name, path) ==
    [name |-> name, path |-> path, gps_info |-> Some(EmptyDict),
     latitude |-> None, longitude |-> None,
     google_qr_code_path |-> None, apple_qr_code_path |-> None]

\* image_metadata[key] = value: a key already in the dict keeps its position.
DictSet(d, key, value) ==
    IF \E i \in 1..Len(d) : d[i].name = key
    THEN [i \in 1..Len(d) |-> IF d[i].name = key THEN value ELSE d[i]]
    ELSE Append(d, value)

\* if gps_info: neither None nor an empty dict.
GpsInfoTruthy(gps_info) == gps_info # None /\ DOMAIN gps_info[1] # {}

HasCoordinate_Always(lat, lon) == TRUE

\* The condition of line 181.
HasCoordinate(lat, lon) == lat # None /\ lon # None

\* One iteration of the loop over images for file, on the record meta already
\* stored under its stem: the record as the iteration leaves it, the files it
\* writes, and the exception it raises, if any.
LoopBody(meta, file, outcome) ==
    LET g == get_gps_data(file)
    IN  IF g.error # None
        THEN [meta |-> meta, files |-> {}, error |-> g.error]
        ELSE
        LET m1 == [meta EXCEPT !.gps_info = g.value]
        IN  IF ~GpsInfoTruthy(g.value)
            THEN [meta |-> m1, files |-> {}, error |-> None]
            ELSE
            LET c == extract_gps_coordinates(g.value[1])
                m2 == [m1 EXCEPT !.latitude = c[1], !.longitude = c[2]]
            IN  IF ~HasCoordinate(c[1], c[2])
                THEN [meta |-> m2, files |-> {}, error |-> None]
                ELSE
                LET q == generate_qr_codes(c[1], c[2], file.stem, output_path,
                                           outcome)
                IN  IF q.error # None
                    THEN [meta |-> m2, files |-> q.files, error |-> q.error]
                    ELSE [meta |-> [m2 EXCEPT !.google_qr_code_path = q.google,
                                              !.apple_qr_code_path = q.apple],
                          files |-> q.files, error |-> None]

\* A file written under a path replaces what was there.
WriteFiles(disk, files) ==
    {f \in disk : \A n \in files : n.path # f.path} \cup files

LoopFinished_Early(i, imgs) == i >= 1 \/ i = Len(imgs)

\* The for statement over images has run out of images.
LoopFinished(i, imgs) == i = Len(imgs)

HasGoogle(meta) == meta.google_qr_code_path # None

\* The comprehension of lines 187-189, in the order of image_metadata.values().
FilteredData(metas) == SelectSeq(metas, HasGoogle)

\* ImageReader(fileName): fails on None and on a file it cannot read.
ImageReader(fileName, readable) ==
    IF fileName = None \/ ~readable THEN Some("OSError") ELSE None

PdfSection_BlankForNone(metadata, readable) ==
    IF ~readable
    THEN [error |-> Some("OSError"), pages |-> << >>]
    ELSE [error |-> None, pages |-> <<metadata.path>>]

\* One iteration of the loop of generate_pdf: the three images are read in
\* turn and the page is closed by showPage.
PdfSection(metadata, readable) ==
    LET original_img == ImageReader(Some(metadata.path), readable)
        google_qr == ImageReader(metadata.google_qr_code_path, readable)
        apple_qr == ImageReader(metadata.apple_qr_code_path, readable)
    IN  IF original_img # None THEN [error |-> original_img, pages |-> << >>]
        ELSE IF google_qr # None THEN [error |-> google_qr, pages |-> << >>]
        ELSE IF apple_qr # None THEN [error |-> apple_qr, pages |-> << >>]
        ELSE [error |-> None, pages |-> <<metadata.path>>]

\* ---------------------------------------------------------------- actions

\* Lines 153-157: a missing input directory is logged and main returns.
CheckInputDir ==
    /\ pc = "start"
    /\ IF dirExists
       THEN pc' = "mkdir" /\ log' = log
       ELSE pc' = "done" /\ log' = log \cup {"error: Directory not found"}
    /\ UNCHANGED <<dirExists, outputDir, listing, images, idx, image_metadata,
                   written, filtered_data, pdfCalls, pages, saves, report, error>>
    /\ UNCHANGED normVars

\* Lines 158-159: mkdir(exist_ok=True) creates one level only.
MakeOutputDir ==
    /\ pc = "mkdir"
    /\ IF outputDir = "noparent"
       THEN pc' = "crashed" /\ error' = Some("FileNotFoundError")
            /\ outputDir' = outputDir
       ELSE pc' = "glob" /\ error' = error /\ outputDir' = "exists"
    /\ UNCHANGED <<dirExists, listing, images, idx, image_metadata, written,
                   filtered_data, pdfCalls, pages, saves, report, log>>
    /\ UNCHANGED normVars

\* Lines 163-166: the files of the directory with a valid suffix.
HasValidExtension(f) == f.ext \in valid_extensions

ListImages ==
    /\ pc = "glob"
    /\ images' = SelectSeq(listing, HasValidExtension)
    /\ image_metadata' = << >>
    /\ pc' = "loop"
    /\ UNCHANGED <<dirExists, outputDir, listing, idx, written, filtered_data,
                   pdfCalls, pages, saves, report, log, error>>
    /\ UNCHANGED normVars

\* Lines 167-186: one iteration of the loop over images.
ProcessImage ==
    /\ pc = "loop"
    /\ ~LoopFinished(idx, images)
    /\ idx < Len(images)
    /\ \E outcome \in QrOutcomes :
         LET file == images[idx + 1]
             fresh == ImageMetadata(file.stem, FileName(file))
             r == LoopBody(fresh, file, outcome)
         IN  /\ image_metadata' = DictSet(image_metadata, file.stem, r.meta)
             /\ written' = WriteFiles(written, r.files)
             /\ IF r.error # None
                THEN pc' = "crashed" /\ error' = r.error /\ idx' = idx
                ELSE pc' = "loop" /\ error' = error /\ idx' = idx + 1
    /\ UNCHANGED <<dirExists, outputDir, listing, images, filtered_data, pdfCalls,
                   pages, saves, report, log>>
    /\ UNCHANGED normVars

\* Lines 187-193 and 109-110: the records are filtered and generate_pdf is
\* entered, or the absence of records is logged.
FinishLoop ==
    /\ pc = "loop"
    /\ LoopFinished(idx, images)
    /\ filtered_data' = FilteredData(image_metadata)
    /\ IF filtered_data' # << >>
       THEN pc' = "pdf" /\ pdfCalls' = pdfCalls + 1 /\ log' = log
       ELSE pc' = "done" /\ pdfCalls' = pdfCalls
            /\ log' = log \cup {"warning: No metadata to process"}
    /\ UNCHANGED <<dirExists, outputDir, listing, images, idx, image_metadata,
                   written, pages, saves, report, error>>
    /\ UNCHANGED normVars

\* Lines 111-138: one page of the PDF.
PdfPage ==
    /\ pc = "pdf"
    /\ Len(pages) < Len(filtered_data)
    /\ \E readable \in BOOLEAN :
         LET r == PdfSection(filtered_data[Len(pages) + 1], readable)
         IN  IF r.error # None
             THEN pc' = "crashed" /\ error' = r.error /\ pages' = pages
             ELSE pc' = "pdf" /\ error' = error /\ pages' = pages \o r.pages
    /\ UNCHANGED <<dirExists, outputDir, listing, images, idx, image_metadata,
                   written, filtered_data, pdfCalls, saves, report, log>>
    /\ UNCHANGED normVars

\* Lines 140-142: the canvas is saved once the loop is over.
PdfSave ==
    /\ pc = "pdf"
    /\ Len(pages) = Len(filtered_data)
    /\ saves' = saves + 1
    /\ report' = Some(pages)
    /\ log' = log \cup {"info: PDF saved"}
    /\ pc' = "done"
    /\ UNCHANGED <<dirExists, outputDir, listing, images, idx, image_metadata,
                   written, filtered_data, pdfCalls, pages, error>>
    /\ UNCHANGED normVars

\* ------------------------------------------------------------ specification

NormIdle ==
    /\ npc = "off"
    /\ gps_in = EmptyDict
    /\ coords = <<None, None>>
    /\ conv_calls = << >>

\* main() on any input directory.
Init ==
    /\ pc = "start"
    /\ dirExists \in BOOLEAN
    /\ outputDir \in {"exists", "absent", "noparent"}
    /\ listing \in Listings
    /\ ~dirExists => listing = << >>
    /\ images = << >>
    /\ idx = 0
    /\ image_metadata = << >>
    /\ written = {}
    /\ filtered_data = << >>
    /\ pdfCalls = 0
    /\ pages = << >>
    /\ saves = 0
    /\ report = None
    /\ log = {}
    /\ error = None
    /\ NormIdle

Next ==
    \/ CheckInputDir
    \/ MakeOutputDir
    \/ ListImages
    \/ ProcessImage
    \/ FinishLoop
    \/ PdfPage
    \/ PdfSave

Spec == Init /\ [][Next]_vars

\* ------------------------------------- extract_gps_coordinates on its own

DegreeValues == {0, 45, 90, MaxDeg}

MinuteValues == {0, 30, MaxMin}

SecondValues == {0, MaxSec}

\* A coordinate tuple as the decoder gives it, or an empty tuple.
TripleValues ==
    {<<d, m, s>> : d \in DegreeValues, m \in MinuteValues, s \in SecondValues}
    \cup {<< >>}

RefValues == {"N", "S", "E", "W", ""}

MainIdle ==
    /\ pc = "off"
    /\ dirExists = TRUE
    /\ outputDir = "exists"
    /\ listing = << >>
    /\ images = << >>
    /\ idx = 0
    /\ image_metadata = << >>
    /\ written = {}
    /\ filtered_data = << >>
    /\ pdfCalls = 0
    /\ pages = << >>
    /\ saves = 0
    /\ report = None
    /\ log = {}
    /\ error = None

\* extract_gps_coordinates is about to be called on any GPS block.
InitNorm ==
    /\ MainIdle
    /\ npc = "call"
    /\ \E tags \in SUBSET GpsTags, la \in TripleValues, lar \in RefValues,
          lo \in TripleValues, lor \in RefValues :
         gps_in = GpsBlock(tags, la, lar, lo, lor)
    /\ coords = <<None, None>>
    /\ conv_calls = << >>

\* Lines 59-73.
Normalize ==
    /\ npc = "call"
    /\ coords' = extract_gps_coordinates(gps_in)
    /\ conv_calls' = ConversionArgs(gps_in)
    /\ npc' = "returned"
    /\ UNCHANGED gps_in
    /\ UNCHANGED mainVars

NextNorm == Normalize

SpecNorm == InitNorm /\ [][NextNorm]_vars

\* ---------------------------------------------------- generate_pdf on its own

RecordNames == {"a", "b"}

\* Records as a caller may pass them: each artifact path set or not.
PdfRecords ==
    {[ImageMetadata(n, n \o ".jpg") EXCEPT
        !.google_qr_code_path = g, !.apple_qr_code_path = a] :
        n \in RecordNames,
        g \in {None, Some("google.png")},
        a \in {None, Some("apple.png")}}

\* generate_pdf has been called on any list of records.
InitPdf ==
    /\ pc = "pdf"
    /\ dirExists = TRUE
    /\ outputDir = "exists"
    /\ listing = << >>
    /\ images = << >>
    /\ idx = 0
    /\ image_metadata = << >>
    /\ written = {}
    /\ filtered_data \in UNION {[1..n -> PdfRecords] : n \in 0..MaxRecords}
    /\ pdfCalls = 1
    /\ pages = << >>
    /\ saves = 0
    /\ report = None
    /\ log = {}
    /\ error = None
    /\ NormIdle

NextPdf == PdfPage \/ PdfSave

SpecPdf == InitPdf /\ [][NextPdf]_vars

\* ------------------------------------------------------------ properties

Terminated == pc \in {"done", "crashed"}

Records == {image_metadata[i] : i \in DOMAIN image_metadata}

Complete(meta) ==
    meta.google_qr_code_path # None /\ meta.apple_qr_code_path # None

\* Image i of the list has been run through the loop body (to its end, or to
\* the exception it raised).
Processed(i) == i <= idx \/ (i = idx + 1 /\ pc = "crashed" /\ pdfCalls = 0)

\* C1: a failure of get_gps_data or generate_qr_codes on image i does not keep
\* image i+1 from being processed: when the run has ended, every image of the
\* list, the ones after a failing image included, has been run through the
\* loop body.
C1_IsolateAndContinue ==
    Terminated => \A i \in 1..Len(images) : Processed(i)

\* C2: in every record, a QR path is set only if latitude and longitude are
\* both set, and latitude or longitude is set only if the record's GPS block
\* holds all four of GPSLatitude, GPSLatitudeRef, GPSLongitude, GPSLongitudeRef.
C2_ArtifactsOnlyWithCoordinate ==
    \A m \in Records :
        /\ (m.google_qr_code_path # None \/ m.apple_qr_code_path # None)
              => (m.latitude # None /\ m.longitude # None)
        /\ (m.latitude # None \/ m.longitude # None)
              => (m.gps_info # None /\ GpsTags \subseteq DOMAIN m.gps_info[1])

C2_Witness ==
    /\ pc = "loop"
    /\ \E m \in Records : m.google_qr_code_path # None /\ m.latitude # None
    /\ \E m \in Records : m.gps_info = Some(PartialBlock) /\ m.latitude = None

\* C3: the stem is a unique key: after the loop the dict holds one record per
\* image processed, and no two images name the same record.
C3_UniqueIdentifier ==
    pc = "loop" =>
        /\ Len(image_metadata) = idx
        /\ \A i, j \in 1..idx : i # j => images[i].stem # images[j].stem

\* The place of the image of a path in the processing order.
PlaceOf(path) == CHOOSE i \in 1..Len(images) : FileName(images[i]) = path

\* C4: the saved report holds exactly one page per record with both artifacts
\* and none for any other record, in the order the images were processed.
C4_OneSectionPerCompleteRecord ==
    report # None =>
        LET saved == report[1]
        IN  /\ \A m \in Records :
                 Cardinality({k \in 1..Len(saved) : saved[k] = m.path})
                    = IF Complete(m) THEN 1 ELSE 0
            /\ \A k \in 1..Len(saved) : \E m \in Records : m.path = saved[k]
            /\ \A j, k \in 1..Len(saved) :
                 j < k => PlaceOf(saved[j]) < PlaceOf(saved[k])

\* C5: generate_pdf is invoked at most once and only when every image has been
\* through the loop; the canvas is saved at most once, only after the last
\* page, and exactly once in an assembly that completes; once generate_pdf has
\* been invoked no image is processed.
C5_AssembleOnceAfterLoop ==
    /\ [](/\ pdfCalls <= 1
          /\ saves <= 1
          /\ (pdfCalls = 1 => idx = Len(images))
          /\ (pages # << >> => pdfCalls = 1)
          /\ (saves = 1 => Len(pages) = Len(filtered_data) /\ report = Some(pages))
          /\ (report # None => saves = 1)
          /\ (pc = "done" /\ pdfCalls = 1 => saves = 1))
    /\ [][/\ pdfCalls >= 1 =>
               (idx' = idx /\ image_metadata' = image_metadata /\ written' = written)
          /\ saves >= 1 => pages' = pages]_vars

C5_Witness ==
    pc = "done" /\ saves = 1 /\ Len(pages) = 2 /\ Len(images) = 3

\* A field of the argument is there and not empty.
Present(k) == k \in DOMAIN gps_in /\ Len(gps_in[k]) > 0

\* C6: extract_gps_coordinates returns (None, None) and calls no conversion
\* when any of the four fields is missing or empty, and returns a pair of
\* coordinates, from two conversions, when all four are there.
C6_AbsentUnlessAllFour ==
    npc = "returned" =>
        IF \A k \in GpsTags : Present(k)
        THEN coords[1] # None /\ coords[2] # None /\ Len(conv_calls) = 2
        ELSE coords = <<None, None>> /\ conv_calls = << >>

C6_Witness ==
    /\ npc = "returned"
    /\ Cardinality({k \in GpsTags : Present(k)}) = 3
    /\ "GPSLatitudeRef" \in DOMAIN gps_in
    /\ gps_in["GPSLatitudeRef"] = ""
    /\ coords = <<None, None>>

ArcSeconds(t) == t[1] * 3600 + t[2] * 60 + t[3]

\* The law of the conversion for one axis: triple t and hemisphere h gave c.
ConversionLaw(t, h, c) ==
    /\ h \in {"N", "E"} => c >= 0 /\ c = ArcSeconds(t)
    /\ h \in {"S", "W"} => c <= 0 /\ c = -ArcSeconds(t)
    /\ (t = <<0, 0, 0>> /\ h = "N") => c = 0
    /\ (t = <<45, 30, 0>> /\ h = "N") => c = 163800
    /\ (t = <<45, 30, 0>> /\ h = "S") => c = -163800

\* C7: convert_to_decimal gives degrees + minutes/60 + seconds/3600, negated
\* exactly for S and W: not negative for N and E, not positive for S and W,
\* not clamped, 0 for (0,0,0,N), 45.5 and -45.5 for (45,30,0,N) and (45,30,0,S).
C7_ConversionLaw ==
    (npc = "returned" /\ coords[1] # None /\ coords[2] # None) =>
        /\ ConversionLaw(gps_in["GPSLatitude"], gps_in["GPSLatitudeRef"],
                         coords[1][1])
        /\ ConversionLaw(gps_in["GPSLongitude"], gps_in["GPSLongitudeRef"],
                         coords[2][1])

C7_Witness ==
    /\ npc = "returned"
    /\ coords[1] = Some(-163800)
    /\ coords[2] # None
    /\ gps_in["GPSLongitudeRef"] = "W"
    /\ coords[2][1] < -(180 * 3600)

NoneGeolocated ==
    \A i \in 1..Len(listing) :
        ~(HasValidExtension(listing[i]) /\ listing[i].content.kind = "gps"
          /\ AllFieldsTruthy(listing[i].content.tags))

\* C9: with the input directory there and no image geolocated the run ends
\* normally, without a call of generate_pdf, without a report, and with the
\* absence logged; the run fails only when the input directory is missing,
\* and then it processes no image and writes nothing.
C9_NoReportIsNotFailure ==
    Terminated =>
        /\ (dirExists /\ NoneGeolocated) =>
              /\ pc = "done"
              /\ pdfCalls = 0
              /\ report = None
              /\ "warning: No metadata to process" \in log
        /\ pc = "crashed" => ~dirExists
        /\ ~dirExists => (idx = 0 /\ image_metadata = << >> /\ written = {})

\* C10: no record has exactly one of the two provider paths, and every record
\* handed to generate_pdf has both.
C10_BothProvidersOrNone ==
    /\ \A m \in Records :
         (m.google_qr_code_path = None) <=> (m.apple_qr_code_path = None)
    /\ pdfCalls >= 1 => \A k \in 1..Len(filtered_data) : Complete(filtered_data[k])

C10_Witness ==
    /\ pc = "pdf"
    /\ Len(filtered_data) >= 1
    /\ Len(image_metadata) > Len(filtered_data)
    /\ \A k \in 1..Len(filtered_data) : Complete(filtered_data[k])

====
